---- MODULE Spec2Model ----
(***************************************************************************)
(* A model of the Swimlane REST client: the session/auth handshake         *)
(* (core/client.py), the paginated Report iterator and its record cache    *)
(* (core/resources/report.py) and the HelperAdapter calls                  *)
(* (core/adapters/helper.py).                                              *)
(*                                                                         *)
(* Python values are modelled as follows.  A dict of headers is a set of   *)
(* <<name, value>> pairs, a header value a sequence of strings.  A Record  *)
(* is the 1-based position of its raw data in the server's result set.     *)
(* A generator object is a record holding the position it is suspended at. *)
(* A list object is an entry of `lists'; `records' names the list object   *)
(* the attribute self.__records is bound to.                               *)
(***************************************************************************)
EXTENDS Integers, Sequences, FiniteSets, TLC

VARIABLES
    python,          \* major version of the interpreter running the client
    apiVersion,      \* server: the settings' apiVersion, a sequence of characters
    login_response,  \* server: the response given to user/login
    N,               \* server: number of records the app's search matches
    session_auth,    \* client: whether _session.auth has been assigned
    login_headers,   \* client: SwimlaneAuth._login_headers
    settings,        \* client: Swimlane.__settings ("None" or the cached apiVersion)
    log,             \* every request handed to _session.request, in order
    lists,           \* report: contents of each list object ever bound to __records
    records,         \* report: index in `lists' of the object __records is bound to
    filters,         \* report: _raw['filters']
    its,             \* the generator objects made by Report.__iter__
    last             \* outcome of the last call made by the caller

vars == <<python, apiVersion, login_response, N, session_auth, login_headers,
          settings, log, lists, records, filters, its, last>>

\* ------------------------------------------------------------------ bounds
MaxRecords == 101
MaxShared == 2
MaxIters == 3
MaxClears == 1
MaxFilters == 1
MaxCalls == 2
MaxSections == 2

\* --------------------------------------------------------------- constants
page_size == 50

None == "None"

\* ------------------------------------------------------- client.py: session
\* The headers requests.Session() carries after Swimlane.__init__'s update().
SessionHeaders == {<<"Content-Type", <<"application/json">>>>}

HeaderNames(h) == {p[1] : p \in h}

\* dict.update on a headers dict: entries of `new' replace entries of the same name.
Update(h, new) == {p \in h : p[1] \notin HeaderNames(new)} \cup new

\* SwimlaneAuth.__call__ returning the request without the update.
SwimlaneAuthCall_NoUpdate(headers) == headers

\* SwimlaneAuth.__call__: the login headers are merged into the outgoing request.
SwimlaneAuthCall(headers) == Update(headers, login_headers)

\* What _session.request sends: the session headers, passed through session.auth
\* when one is assigned.  offset/pageSize are the body's pagination fields (-1 when
\* the body has none), `by' the generator the request was made for (0 for none).
Entry(endpoint, offset, pageSize, by) ==
    [endpoint |-> endpoint,
     headers  |-> IF session_auth THEN SwimlaneAuthCall(SessionHeaders) ELSE SessionHeaders,
     offset   |-> offset,
     pageSize |-> pageSize,
     by       |-> by]

\* Swimlane.request: one entry more in the log of requests sent.
Sent(endpoint, offset, pageSize, by) == Append(log, Entry(endpoint, offset, pageSize, by))

\* ---------------------------------------------------- client.py: authenticate
RECURSIVE JoinCookies(_)
\* ';'.join(["%s=%s" % cookie for cookie in resp.cookies.items()])
JoinCookies(cookies) ==
    IF cookies = <<>> THEN <<>>
    ELSE LET one == <<cookies[1][1], "=", cookies[1][2]>>
         IN IF Len(cookies) = 1 THEN one
            ELSE one \o <<";">> \o JoinCookies(Tail(cookies))

\* json_content.get('token'): None when the field is absent, else the field's value
\* (which is None for a JSON null).
GetToken(resp) == IF resp.has_token THEN resp.token ELSE None

\* authenticate testing `if not token' in place of `if token is None'.
authenticate_Falsy(resp) ==
    LET token == GetToken(resp)
    IN IF token = None \/ token = ""
       THEN {<<"Cookie", JoinCookies(resp.cookies)>>}
       ELSE {<<"Authorization", <<"Bearer ", token>>>>}

\* SwimlaneAuth.authenticate, after the login request: the headers it returns.
authenticate(resp) ==
    LET token == GetToken(resp)
    IN IF token = None
       THEN {<<"Cookie", JoinCookies(resp.cookies)>>}
       ELSE {<<"Authorization", <<"Bearer ", token>>>>}

\* The login responses the server may give.
Tokens == {None, "", "jwt1"}
CookieJars == {<<>>, <<<<"sid", "a1">>>>, <<<<"sid", "a1">>, <<"xsrf", "b2">>>>}
LoginResponses ==
    [status : {200}, has_token : {TRUE}, token : Tokens, cookies : CookieJars]
        \cup [status : {200}, has_token : {FALSE}, token : {None}, cookies : CookieJars]
        \cup [status : {401}, has_token : {FALSE}, token : {None}, cookies : {<<>>}]

\* ----------------------------------------------- client.py: _compare_version
Digits == {"0", "1", "2", "3", "4", "5", "6", "7", "8", "9"}

\* re.findall(r'\d+', s): the maximal runs of digits of s, left to right, each
\* still a string (a sequence of characters).
Findall(s) ==
    LET F[i \in 0..Len(s)] ==
            IF i = 0 THEN [out |-> <<>>, cur |-> <<>>]
            ELSE LET p == F[i - 1]
                 IN IF s[i] \in Digits
                    THEN [out |-> p.out, cur |-> Append(p.cur, s[i])]
                    ELSE [out |-> IF p.cur = <<>> THEN p.out ELSE Append(p.out, p.cur),
                          cur |-> <<>>]
        f == F[Len(s)]
    IN IF f.cur = <<>> THEN f.out ELSE Append(f.out, f.cur)

\* seq[0:k]
Slice(seq, k) == SubSeq(seq, 1, IF k < Len(seq) THEN k ELSE Len(seq))

\* tuple(str, ...) > tuple(int, ...) and tuple(str, ...) < tuple(int, ...).  A str
\* never equals an int, so the first pair of items decides whenever both tuples
\* have one; otherwise the lengths decide.  Ordering a str against an int is
\* "str is greater" on Python 2 and a TypeError on Python 3.
TupleGreater(py, versions, sections) ==
    IF versions = <<>> \/ sections = <<>> THEN
        IF Len(versions) > Len(sections) THEN "True" ELSE "False"
    ELSE IF py = 2 THEN "True" ELSE "TypeError"

TupleLess(py, versions, sections) ==
    IF versions = <<>> \/ sections = <<>> THEN
        IF Len(versions) < Len(sections) THEN "True" ELSE "False"
    ELSE IF py = 2 THEN "False" ELSE "TypeError"

BoolInt(b) == IF b = "True" THEN 1 ELSE 0

\* Swimlane._compare_version(*version_sections) on server version `version':
\* the exception it raises ("" for none) and the value it returns.
compare_version(py, version, version_sections) ==
    LET sections_provided == Len(version_sections)
        versions == Slice(Findall(version), sections_provided)
        gt == TupleGreater(py, versions, version_sections)
        lt == TupleLess(py, versions, version_sections)
    IN IF gt = "TypeError" \/ lt = "TypeError"
       THEN [exc |-> "TypeError", ret |-> 0]
       ELSE [exc |-> "", ret |-> BoolInt(gt) - BoolInt(lt)]

\* The apiVersion strings the server may report, as sequences of characters:
\* "2.13.2-173414", "2.9", "2.13", "10", "3.0.1" and "dev".
ServerVersions ==
    { <<"2", ".", "1", "3", ".", "2", "-", "1", "7", "3", "4", "1", "4">>,
      <<"2", ".", "9">>,
      <<"2", ".", "1", "3">>,
      <<"1", "0">>,
      <<"3", ".", "0", ".", "1">>,
      <<"d", "e", "v">> }

\* The integers a caller passes as version sections.
SectionValues == {1, 2, 3, 9, 13, 14}

RECURSIVE SeqsUpTo(_, _)
SeqsUpTo(S, n) ==
    IF n = 0 THEN {<<>>}
    ELSE LET shorter == SeqsUpTo(S, n - 1)
         IN shorter \cup {Append(q, x) : q \in {r \in shorter : Len(r) = n - 1}, x \in S}

\* ------------------------------------------------------ report.py: the server
\* The search endpoint of a server holding a fixed result set of N records for the
\* app: it reports count = N and serves, for a body asking for page `offset' of
\* `pageSize' records, the records offset*pageSize+1 .. min((offset+1)*pageSize, N).
ServerSearch(body) ==
    LET lo == body.offset * body.pageSize + 1
        top == (body.offset + 1) * body.pageSize
        hi == IF top < N THEN top ELSE N
    IN [count |-> N,
        results |-> IF hi < lo THEN <<>> ELSE [k \in 1..(hi - lo + 1) |-> lo + k - 1]]

\* ------------------------------------------------- report.py: Report.__iter__
\* _get_paginated_body writing a record offset in place of the page index.
get_paginated_body_RecordOffset(page) == [pageSize |-> page_size, offset |-> page * page_size]

\* Report._get_paginated_body: the pagination fields written into the copy of _raw.
get_paginated_body(page) == [pageSize |-> page_size, offset |-> page]

\* Report._retrieve_report_page: the body posted to search and the JSON returned.
retrieve_report_page(page) == ServerSearch(get_paginated_body(page))

\* The loop's exit test, `not records or page * self._page_size >= count'.
Break(recs, page, count) == recs = <<>> \/ page * page_size >= count

\* A generator object of Report.__iter__.  pc: "none" (not created), "new" (created,
\* body not entered), "cached" (suspended in the loop over self.__records), "fetch"
\* (suspended in the loop over a page's records), "done" (returned).  ref: the list
\* object the cached loop iterates; idx: items consumed from it (cached) or from buf
\* (fetch); page, count, buf: the fetch loop's page, count and records.  The other
\* fields record its history: yielded, what it yielded; started and ended, which
\* list object __records was bound to when its body was entered and when it
\* returned; first, whether it was the first generator entered since that list
\* object was bound; after, the generators that had returned when it was entered.
NoIter ==
    [pc |-> "none", ref |-> 0, idx |-> 0, page |-> 0, count |-> 0, buf |-> <<>>,
     yielded |-> <<>>, started |-> 0, ended |-> 0, first |-> FALSE, after |-> {}]

Finished(it) == [it EXCEPT !.pc = "done", !.ended = records]

RECURSIVE FetchPage(_, _, _, _)
\* One turn of `for page in itertools.count()', run until the generator yields or
\* returns.  cache: the contents of the list __records is bound to; reqs: the
\* bodies posted so far by this call of next().
FetchPage(it, page, cache, reqs) ==
    LET result_data == retrieve_report_page(page)
        count == result_data.count
        recs == result_data.results
        posted == Append(reqs, get_paginated_body(page))
    IN IF recs # <<>>
       THEN [it |-> [it EXCEPT !.pc = "fetch", !.page = page, !.count = count,
                               !.buf = recs, !.idx = 1,
                               !.yielded = Append(@, recs[1])],
             cache |-> Append(cache, recs[1]),
             reqs |-> posted,
             ret |-> recs[1]]
       ELSE IF Break(recs, page, count)
       THEN [it |-> Finished([it EXCEPT !.page = page, !.count = count, !.buf = recs,
                                        !.idx = 0]),
             cache |-> cache, reqs |-> posted, ret |-> 0]
       ELSE FetchPage(it, page + 1, cache, posted)

\* Resuming a generator suspended at `yield result' in the fetch loop.
ResumeFetch(it, cache) ==
    IF it.idx < Len(it.buf)
    THEN LET result == it.buf[it.idx + 1]
         IN [it |-> [it EXCEPT !.idx = @ + 1, !.yielded = Append(@, result)],
             cache |-> Append(cache, result), reqs |-> <<>>, ret |-> result]
    ELSE IF Break(it.buf, it.page, it.count)
    THEN [it |-> Finished(it), cache |-> cache, reqs |-> <<>>, ret |-> 0]
    ELSE FetchPage(it, it.page + 1, cache, <<>>)

\* The loop `for record in self.__records' over list object it.ref, whose contents
\* are `list': the list iterator yields the next item the list now holds, if any.
ResumeCached(it, list, cache) ==
    IF it.idx < Len(list)
    THEN [it |-> [it EXCEPT !.pc = "cached", !.idx = @ + 1,
                            !.yielded = Append(@, list[it.idx + 1])],
          cache |-> cache, reqs |-> <<>>, ret |-> list[it.idx + 1]]
    ELSE [it |-> Finished(it), cache |-> cache, reqs |-> <<>>, ret |-> 0]

\* next() on a generator of Report.__iter__: the body runs to its next yield or to
\* its end.
GenNext(it) ==
    LET cache == lists[records]
    IN IF it.pc = "new"
       THEN LET entered == [it EXCEPT !.started = records,
                               !.first = \A j \in DOMAIN its : its[j].started # records,
                               !.after = {j \in DOMAIN its : its[j].pc = "done"}]
            IN IF cache # <<>>
               THEN ResumeCached([entered EXCEPT !.ref = records], cache, cache)
               ELSE FetchPage(entered, 0, cache, <<>>)
       ELSE IF it.pc = "cached"
       THEN ResumeCached(it, lists[it.ref], cache)
       ELSE ResumeFetch(it, cache)

\* The requests of one next() call, appended to the log in the order posted.
RECURSIVE Post(_, _, _)
Post(sofar, reqs, by) ==
    IF reqs = <<>> THEN sofar
    ELSE Post(Append(sofar, Entry("search", reqs[1].offset, reqs[1].pageSize, by)),
              Tail(reqs), by)

\* What the caller saw of a call: the operation and its arguments, the exception
\* raised ("" for none), the value returned (0 for None) and the number of requests
\* the call sent.
Outcome(op, args, exc, ret, sent) ==
    [op |-> op, args |-> args, exc |-> exc, ret |-> ret, sent |-> sent]

\* iter(report): a new generator object; nothing of its body runs yet.
Iter(i) ==
    /\ session_auth
    /\ its[i].pc = "none"
    /\ \A j \in 1..(i - 1) : its[j].pc # "none"
    /\ its' = [its EXCEPT ![i] = [NoIter EXCEPT !.pc = "new"]]
    /\ last' = Outcome("__iter__", <<i>>, "", 0, 0)
    /\ UNCHANGED <<python, apiVersion, login_response, N, session_auth, login_headers,
                   settings, log, lists, records, filters>>

\* next(generator i).
IterNext(i) ==
    /\ its[i].pc \in {"new", "cached", "fetch"}
    /\ LET out == GenNext(its[i])
       IN /\ its' = [its EXCEPT ![i] = out.it]
          /\ lists' = [lists EXCEPT ![records] = out.cache]
          /\ log' = Post(log, out.reqs, i)
          /\ last' = Outcome("next", <<i>>,
                             IF out.it.pc = "done" THEN "StopIteration" ELSE "",
                             out.ret, Len(out.reqs))
    /\ UNCHANGED <<python, apiVersion, login_response, N, session_auth, login_headers,
                   settings, records, filters>>

\* Report.clear_results: __records is bound to a new, empty list object.
clear_results ==
    /\ session_auth
    /\ records <= MaxClears
    /\ lists' = Append(lists, <<>>)
    /\ records' = Len(lists) + 1
    /\ last' = Outcome("clear_results", <<>>, "", 0, 0)
    /\ UNCHANGED <<python, apiVersion, login_response, N, session_auth, login_headers,
                   settings, log, filters, its>>

\* --------------------------------------------------- report.py: Report.filter
\* _FILTER_OPERANDS with one operand too many.
FILTER_OPERANDS_Extra == {"EQ", "NOT_EQ", "CONTAINS", "EXCLUDES", "GT"}

\* Report._FILTER_OPERANDS
FILTER_OPERANDS == {"EQ", "NOT_EQ", "CONTAINS", "EXCLUDES"}

\* The operands a caller may pass: the four of swimlane.core.search and one other.
Operands == FILTER_OPERANDS \cup {"GT"}

\* The names of the app's fields, and names a caller may pass.
AppFields == {"Name"}
FieldNames == AppFields \cup {"Bogus"}
FilterValues == {"x"}

\* App.get_field_definition_by_name(field)['id']; raises for a name the app lacks.
FieldId(field) == <<"id", field>>

\* Report.filter(field, operand, value).
filter(field, operand, value) ==
    /\ session_auth
    /\ IF operand \notin FILTER_OPERANDS
       THEN /\ last' = Outcome("filter", <<field, operand, value>>, "ValueError", 0, 0)
            /\ UNCHANGED filters
       ELSE IF field \notin AppFields
       THEN /\ last' = Outcome("filter", <<field, operand, value>>, "KeyError", 0, 0)
            /\ UNCHANGED filters
       ELSE /\ Len(filters) < MaxFilters
            /\ filters' = Append(filters, [fieldId |-> FieldId(field),
                                           filterType |-> operand,
                                           value |-> value])
            /\ last' = Outcome("filter", <<field, operand, value>>, "", 0, 0)
    /\ UNCHANGED <<python, apiVersion, login_response, N, session_auth, login_headers,
                   settings, log, lists, records, its>>

\* ----------------------------------------------------- client.py: the client
\* The request Swimlane.__init__ sends while _session.auth is still unassigned.
LoginEntry ==
    [endpoint |-> "user/login", headers |-> SessionHeaders,
     offset |-> -1, pageSize |-> -1, by |-> 0]

\* Swimlane(host, username, password): SwimlaneAuth.__init__ logs in, and on a 2xx
\* response its headers are kept and the auth object is assigned to the session; on
\* a 4xx/5xx response request() raises and no client exists.
Construct ==
    /\ log = <<>>
    /\ log' = <<LoginEntry>>
    /\ IF login_response.status < 400
       THEN /\ login_headers' = authenticate(login_response)
            /\ session_auth' = TRUE
            /\ last' = Outcome("__init__", <<>>, "", 0, 1)
       ELSE /\ UNCHANGED <<login_headers, session_auth>>
            /\ last' = Outcome("__init__", <<>>, "HTTPError", 0, 1)
    /\ UNCHANGED <<python, apiVersion, login_response, N, settings, lists, records,
                   filters, its>>

\* Swimlane.settings / Swimlane.version: the settings are requested when none are
\* cached.  The log and the cache after the lookup:
SettingsLog == IF settings = None THEN Sent("settings", -1, -1, 0) ELSE log
SettingsCache == IF settings = None THEN apiVersion ELSE settings

\* Swimlane._compare_version(*version_sections).
CompareVersion(version_sections) ==
    /\ session_auth
    /\ log' = SettingsLog
    /\ settings' = SettingsCache
    /\ LET r == compare_version(python, SettingsCache, version_sections)
       IN last' = Outcome("_compare_version", version_sections, r.exc, r.ret,
                          Len(SettingsLog) - Len(log))
    /\ UNCHANGED <<python, apiVersion, login_response, N, session_auth, login_headers,
                   lists, records, filters, its>>

\* ------------------------------------------------- helper.py: HelperAdapter
\* The value of a digit string, and the integer tuple of a version's first k
\* numeric segments.
DigitVal(c) == CHOOSE n \in 0..9 : <<"0", "1", "2", "3", "4", "5", "6", "7", "8", "9">>[n + 1] = c

RECURSIVE ToInt(_)
ToInt(ds) == IF ds = <<>> THEN 0 ELSE 10 * ToInt(SubSeq(ds, 1, Len(ds) - 1)) + DigitVal(ds[Len(ds)])

IntSegments(version, k) ==
    LET v == Slice(Findall(version), k) IN [i \in 1..Len(v) |-> ToInt(v[i])]

\* Tuple-wise order of two integer tuples: 1, 0 or -1 as a is greater than, equal to
\* or less than b, a proper prefix being less.
RECURSIVE TupleCmp(_, _)
TupleCmp(a, b) ==
    IF a = <<>> /\ b = <<>> THEN 0
    ELSE IF a = <<>> THEN -1
    ELSE IF b = <<>> THEN 1
    ELSE IF a[1] > b[1] THEN 1
    ELSE IF a[1] < b[1] THEN -1
    ELSE TupleCmp(Tail(a), Tail(b))

\* The arguments a caller may pass where a str is documented, and where a list of
\* str is documented, by their Python type.
StrArgs == {"str", "NoneType"}
ListArgs == {"list[str]", "list[int]", "NoneType"}
BoolArgs == {"bool", "str"}

\* swimlane.utils.str_validator.validate_str and list_validator.validate_str_list:
\* whether the value passes.
validate_str(value) == value = "str"
validate_str_list(value) == value = "list[str]"

\* @requires_swimlane_version('2.15'): whether the server version admits the call.
requires_swimlane_version(version) == TupleCmp(IntSegments(version, 2), <<2, 15>>) >= 0

\* The log after the call's own request, following whatever the call sent before.
AfterRequest(sofar, endpoint) == Append(sofar, Entry(endpoint, -1, -1, 0))

\* HelperAdapter.add_record_references(app_id, record_id, field_id, target_record_ids);
\* status is the server's answer to the add-references request.
add_record_references(app_id, record_id, field_id, target_record_ids, status) ==
    LET args == <<app_id, record_id, field_id, target_record_ids>>
    IN
    /\ session_auth
    /\ Len(log) <= MaxCalls
    /\ settings' = SettingsCache
    /\ IF ~requires_swimlane_version(SettingsCache)
       THEN /\ log' = SettingsLog
            /\ last' = Outcome("add_record_references", args, "InvalidVersion", 0,
                               Len(SettingsLog) - Len(log))
       ELSE IF ~validate_str_list(target_record_ids)
       THEN /\ log' = SettingsLog
            /\ last' = Outcome("add_record_references", args, "ValueError", 0,
                               Len(SettingsLog) - Len(log))
       ELSE /\ log' = AfterRequest(SettingsLog, "add-references")
            /\ last' = Outcome("add_record_references", args,
                               IF status < 400 THEN "" ELSE "HTTPError", 0,
                               Len(SettingsLog) - Len(log) + 1)
    /\ UNCHANGED <<python, apiVersion, login_response, N, session_auth, login_headers,
                   lists, records, filters, its>>

\* HelperAdapter.add_comment(app_id, record_id, field_id, message, rich_text).
add_comment(app_id, record_id, field_id, message, rich_text, status) ==
    LET args == <<app_id, record_id, field_id, message, rich_text>>
    IN
    /\ session_auth
    /\ Len(log) <= MaxCalls
    /\ IF \/ ~validate_str(app_id) \/ ~validate_str(record_id)
          \/ ~validate_str(field_id) \/ ~validate_str(message)
          \/ rich_text # "bool"
       THEN /\ UNCHANGED log
            /\ last' = Outcome("add_comment", args, "ValueError", 0, 0)
       ELSE /\ log' = AfterRequest(log, "comment")
            /\ last' = Outcome("add_comment", args,
                               IF status < 400 THEN "" ELSE "HTTPError", 0, 1)
    /\ UNCHANGED <<python, apiVersion, login_response, N, session_auth, login_headers,
                   settings, lists, records, filters, its>>

\* HelperAdapter.check_bulk_job_status(job_id).
check_bulk_job_status(job_id, status) ==
    /\ session_auth
    /\ Len(log) <= MaxCalls
    /\ IF ~validate_str(job_id)
       THEN /\ UNCHANGED log
            /\ last' = Outcome("check_bulk_job_status", <<job_id>>, "ValueError", 0, 0)
       ELSE /\ log' = AfterRequest(log, "logging/job")
            /\ last' = Outcome("check_bulk_job_status", <<job_id>>,
                               IF status < 400 THEN "" ELSE "HTTPError", 0, 1)
    /\ UNCHANGED <<python, apiVersion, login_response, N, session_auth, login_headers,
                   settings, lists, records, filters, its>>

\* The status codes the server may answer a helper request with; request() raises
\* on 4xx/5xx.  Settings lookups and searches are answered 200.
Statuses == {200, 500}

\* ------------------------------------------------------------ specifications
PythonVersions == {2, 3}

\* The versions used where only the 2.15 gate reads them: "2.13" and "3.0.1".
GateVersions == {<<"2", ".", "1", "3">>, <<"3", ".", "0", ".", "1">>}

\* A login answered with a bearer token.
TokenLogin ==
    [status |-> 200, has_token |-> TRUE, token |-> "jwt1", cookies |-> <<<<"sid", "a1">>>>]

\* No client yet: nothing sent, no auth on the session, a fresh (unused) report.
Unconstructed ==
    /\ session_auth = FALSE
    /\ login_headers = {}
    /\ settings = None
    /\ log = <<>>
    /\ lists = <<<<>>>>
    /\ records = 1
    /\ filters = <<>>
    /\ its = [i \in 1..MaxIters |-> NoIter]
    /\ last = Outcome("", <<>>, "", 0, 0)

\* A client constructed against a server answering the login with login_response,
\* and a Report of it just built (Report.__init__: an empty record cache).
Constructed ==
    /\ session_auth = TRUE
    /\ login_headers = authenticate(login_response)
    /\ settings = None
    /\ log = <<LoginEntry>>
    /\ lists = <<<<>>>>
    /\ records = 1
    /\ filters = <<>>
    /\ its = [i \in 1..MaxIters |-> NoIter]
    /\ last = Outcome("__init__", <<>>, "", 0, 1)

\* Any use of one Report by a caller holding several generators of it.
Init ==
    /\ python = 3
    /\ apiVersion \in {<<"2", ".", "1", "3">>}
    /\ login_response = TokenLogin
    /\ N \in 0..MaxShared
    /\ Constructed

Next ==
    \/ \E i \in 1..MaxIters : Iter(i)
    \/ \E i \in 1..MaxIters : IterNext(i)
    \/ clear_results

Spec == Init /\ [][Next]_vars

\* A first iteration of a fresh Report, driven by a caller that drains it.
InitIter ==
    /\ python = 3
    /\ apiVersion \in {<<"2", ".", "1", "3">>}
    /\ login_response = TokenLogin
    /\ N \in 0..MaxRecords
    /\ Constructed

NextIter == Iter(1) \/ IterNext(1)

SpecIter == InitIter /\ [][NextIter]_vars /\ WF_vars(NextIter)

\* Filters added to a Report between and during iterations of it.
InitFilter ==
    /\ python = 3
    /\ apiVersion \in {<<"2", ".", "1", "3">>}
    /\ login_response = TokenLogin
    /\ N \in 0..MaxShared
    /\ Constructed

NextFilter ==
    \/ \E f \in FieldNames, o \in Operands, v \in FilterValues : filter(f, o, v)
    \/ Iter(1)
    \/ IterNext(1)
    \/ clear_results

SpecFilter == InitFilter /\ [][NextFilter]_vars

\* _compare_version applied to every server version and every argument tuple.
InitVersion ==
    /\ python \in PythonVersions
    /\ apiVersion \in ServerVersions
    /\ login_response = TokenLogin
    /\ N = 0
    /\ Constructed

NextVersion == \E vs \in SeqsUpTo(SectionValues, MaxSections) : CompareVersion(vs)

SpecVersion == InitVersion /\ [][NextVersion]_vars

\* The client from its construction on: login, helper calls, version lookups and a
\* report iteration, against every login response.
InitClient ==
    /\ python = 3
    /\ apiVersion \in GateVersions
    /\ login_response \in LoginResponses
    /\ N = 1
    /\ Unconstructed

NextClient ==
    \/ Construct
    \/ \E a, r, f \in StrArgs, t \in ListArgs, st \in Statuses :
           add_record_references(a, r, f, t, st)
    \/ \E a, r, f, m \in StrArgs, b \in BoolArgs, st \in Statuses :
           add_comment(a, r, f, m, b, st)
    \/ \E j \in StrArgs, st \in Statuses : check_bulk_job_status(j, st)
    \/ Iter(1)
    \/ IterNext(1)

SpecClient == InitClient /\ [][NextClient]_vars

\* Helper calls on a client whose version has already been read (client.version):
\* the settings are cached, so a call's requests are its own.
InitHelper ==
    /\ python = 3
    /\ apiVersion \in GateVersions
    /\ login_response = TokenLogin
    /\ N = 0
    /\ session_auth = TRUE
    /\ login_headers = authenticate(login_response)
    /\ settings = apiVersion
    /\ log = <<LoginEntry,
               [endpoint |-> "settings",
                headers |-> Update(SessionHeaders, authenticate(login_response)),
                offset |-> -1, pageSize |-> -1, by |-> 0]>>
    /\ lists = <<<<>>>>
    /\ records = 1
    /\ filters = <<>>
    /\ its = [i \in 1..MaxIters |-> NoIter]
    /\ last = Outcome("version", <<>>, "", 0, 1)

NextHelper ==
    \/ \E a, r, f \in StrArgs, t \in ListArgs, st \in Statuses :
           add_record_references(a, r, f, t, st)
    \/ \E a, r, f, m \in StrArgs, b \in BoolArgs, st \in Statuses :
           add_comment(a, r, f, m, b, st)
    \/ \E j \in StrArgs, st \in Statuses : check_bulk_job_status(j, st)

SpecHelper == InitHelper /\ [][NextHelper]_vars

\* ------------------------------------------------------------------ properties
\* The server's result set, in server order.
FullResult == [k \in 1..N |-> k]

\* The search requests posted for generator i, in the order posted.
RECURSIVE SearchesOf(_, _)
SearchesOf(l, i) ==
    IF l = <<>> THEN <<>>
    ELSE IF l[1].endpoint = "search" /\ l[1].by = i
    THEN <<l[1]>> \o SearchesOf(Tail(l), i)
    ELSE SearchesOf(Tail(l), i)

\* The records the server has returned for pages 0..q of the given size.
RECURSIVE Covered(_, _)
Covered(q, size) ==
    IF q < 0 THEN 0
    ELSE Len(ServerSearch([offset |-> q, pageSize |-> size]).results) + Covered(q - 1, size)

\* Page q's response ends the iteration as the contract has it: it holds no records,
\* or the records covered so far have reached the count it reports.
Satisfied(q, size) ==
    LET resp == ServerSearch([offset |-> q, pageSize |-> size])
    IN resp.results = <<>> \/ Covered(q, size) >= resp.count

\* C1: a first iteration requests pages 0, 1, 2, ... in order; it requests no page
\* after one whose response has no records or brings the records covered to the
\* reported count, and it has not returned unless its last page is such a page.
C1_HaltsExactly ==
    LET reqs == SearchesOf(log, 1)
    IN /\ \A k \in 1..Len(reqs) : reqs[k].offset = k - 1
       /\ \A k \in 1..Len(reqs) : k < Len(reqs) => ~Satisfied(k - 1, reqs[k].pageSize)
       /\ its[1].pc = "done" =>
              (reqs # <<>> /\ Satisfied(Len(reqs) - 1, reqs[Len(reqs)].pageSize))

\* C2: once a generator has returned, a generator entered later, with no
\* clear_results() between that return and its entry, posts no search request and,
\* run to completion, has yielded what the earlier one yielded, in the same order.
C2_CachedOnceDrained ==
    \A i, j \in DOMAIN its :
        (i \in its[j].after /\ its[i].ended = its[j].started) =>
            /\ SearchesOf(log, j) = <<>>
            /\ its[j].pc = "done" => its[j].yielded = its[i].yielded

\* C8: the first generator entered after a clear_results() posts search requests
\* from page 0 on and, run to completion, has yielded the server's whole result set.
C8_RerunAfterClear ==
    \A i \in DOMAIN its :
        (its[i].started >= 2 /\ its[i].first) =>
            /\ SearchesOf(log, i) # <<>>
            /\ SearchesOf(log, i)[1].offset = 0
            /\ its[i].pc = "done" => its[i].yielded = FullResult

\* The safety half of C9: request k of the first iteration carries pageSize 50 and
\* offset k - 1, no more than N div 50 + 2 requests are sent, and once the generator
\* has returned it has yielded records 1..N, once each, in server order.
C9_Inv ==
    LET reqs == SearchesOf(log, 1)
    IN /\ \A k \in 1..Len(reqs) : reqs[k].offset = k - 1 /\ reqs[k].pageSize = 50
       /\ Len(reqs) <= (N \div 50) + 2
       /\ its[1].pc = "done" => its[1].yielded = FullResult

\* C9: against a server holding N records, the first iteration of a fresh Report
\* returns after finitely many search requests, request p carrying pageSize 50 and
\* offset p, having yielded the N records once each in server order.
C9_FirstIteration == []C9_Inv /\ <>(its[1].pc = "done")

\* C9 witness: a drained first iteration over three pages, the last one partial.
C9_Witness ==
    /\ its[1].pc = "done"
    /\ N = 101
    /\ Len(SearchesOf(log, 1)) = 4
    /\ Len(its[1].yielded) = 101

\* C10: with no clear_results() called, every generator that has returned has
\* yielded the server's whole result set, each record once, and the record cache is
\* a duplicate-free prefix of that result set.
C10_Interleaved ==
    records = 1 =>
        /\ \A i \in DOMAIN its : its[i].pc = "done" => its[i].yielded = FullResult
        /\ Len(lists[1]) <= N
        /\ \A k \in 1..Len(lists[1]) : lists[1][k] = k

\* C3: _compare_version(s1, ..., sk), k >= 1, returns the order of the server
\* version's first k numeric segments, taken as integers, against (s1, ..., sk).
C3_CompareVersion ==
    (last.op = "_compare_version" /\ Len(last.args) >= 1) =>
        /\ last.exc = ""
        /\ last.ret = TupleCmp(IntSegments(apiVersion, Len(last.args)), last.args)

\* C4: a filter() call with an operand other than EQ, NOT_EQ, CONTAINS, EXCLUDES
\* raises ValueError, sends nothing and leaves the filters and the record cache as
\* they were; the filters grow, by one entry, exactly when the operand is one of
\* the four and the field name is a field of the app.
C4_FilterValidation ==
    [][\A f \in FieldNames, o \in Operands, v \in FilterValues :
           filter(f, o, v) =>
               /\ o \notin {"EQ", "NOT_EQ", "CONTAINS", "EXCLUDES"} =>
                      /\ last'.exc = "ValueError"
                      /\ log' = log
                      /\ filters' = filters
                      /\ lists' = lists /\ records' = records
               /\ IF o \in {"EQ", "NOT_EQ", "CONTAINS", "EXCLUDES"} /\ f \in AppFields
                  THEN /\ Len(filters') = Len(filters) + 1
                       /\ SubSeq(filters', 1, Len(filters)) = filters
                       /\ filters'[Len(filters')].filterType = o
                       /\ filters'[Len(filters')].value = v
                  ELSE filters' = filters]_vars

\* C4 witness: an unsupported operand rejected on a report that already has a
\* filter and cached records.
C4_Witness ==
    /\ last.op = "filter"
    /\ last.exc = "ValueError"
    /\ last.args[2] = "GT"
    /\ filters # <<>>
    /\ lists[records] # <<>>

\* C5: a helper call given a malformed string or list-of-strings argument raises
\* and has sent no request at all.
C5_ValidationBeforeRequest ==
    LET documented == IF Len(last.args) < 4 THEN Len(last.args) ELSE 4
    IN (/\ last.op \in {"add_record_references", "add_comment", "check_bulk_job_status"}
        /\ \E k \in 1..documented : last.args[k] \notin {"str", "list[str]"})
       => (last.exc # "" /\ last.sent = 0)

\* C6: one login request per client, sent before every other request; every
\* later request carries the headers derived from the login response, and the
\* client's login headers stay those.
C6_AuthOnEveryRequest ==
    /\ log # <<>> => log[1].endpoint = "user/login"
    /\ \A k \in 2..Len(log) :
           /\ log[k].endpoint # "user/login"
           /\ authenticate(login_response) \subseteq log[k].headers
           /\ Cardinality(log[k].headers) = Cardinality(SessionHeaders) + 1
    /\ session_auth => login_headers = authenticate(login_response)
    /\ ~session_auth => Len(log) <= 1

\* C6 witness: a cookie-authenticated client that has sent a settings lookup, a
\* helper request and a search.
C6_Witness ==
    /\ ~login_response.has_token
    /\ login_response.cookies # <<>>
    /\ \E k \in 1..Len(log) : log[k].endpoint = "settings"
    /\ \E k \in 1..Len(log) : log[k].endpoint = "add-references"
    /\ \E k \in 1..Len(log) : log[k].endpoint = "search"

\* C7 as stated: a login response whose body has a token field gives exactly the
\* Authorization: Bearer header, one without the field exactly one Cookie header.
C7_TokenFieldPicksBearer ==
    session_auth =>
        IF login_response.has_token
        THEN login_headers = {<<"Authorization", <<"Bearer ", login_response.token>>>>}
        ELSE /\ Cardinality(login_headers) = 1
             /\ \A h \in login_headers :
                    h[1] = "Cookie" /\ h[2] = JoinCookies(login_response.cookies)

\* C7 as amended: a token field holding a value other than null gives exactly the
\* Authorization: Bearer header; an absent or null token field gives exactly one
\* Cookie header built from the response cookies.
C7_NonNullTokenPicksBearer ==
    session_auth =>
        IF login_response.has_token /\ login_response.token # None
        THEN login_headers = {<<"Authorization", <<"Bearer ", login_response.token>>>>}
        ELSE /\ Cardinality(login_headers) = 1
             /\ \A h \in login_headers :
                    h[1] = "Cookie" /\ h[2] = JoinCookies(login_response.cookies)

\* C7 witness: a login answered with "token": null and two cookies.
C7_Witness ==
    /\ session_auth
    /\ login_response.has_token
    /\ login_response.token = None
    /\ Len(login_response.cookies) = 2
    /\ login_headers = {<<"Cookie", <<"sid", "=", "a1", ";", "xsrf", "=", "b2">>>>}

====
